---- MODULE Spec2Model ----
(***************************************************************************)
(* A model of investment-game.py: the selection strategies, the equal      *)
(* weight allocation of Investor.invest, the return calculation, the       *)
(* comparison of portfolios and the top-level script.                      *)
(*                                                                         *)
(* Numbers.  Prices, balances and share counts are Python ints (exact).    *)
(* A true division `/` yields a Python float: the exact quotient rounded   *)
(* to the nearest value with a fixed number of significant bits, ties to   *)
(* even.  The program's floats have 53 significant bits; the model keeps   *)
(* the rounding and narrows the significand to MantissaBits bits, so that  *)
(* the integers the rounding moves are small enough to enumerate.  A float *)
(* is a pair <<n, d>> in lowest terms, d a power of two.                   *)
(*                                                                         *)
(* Dictionaries.  A Python dict keeps insertion order: a market snapshot   *)
(* is a sequence of <<symbol, data>> items with unique symbols, data a     *)
(* record of the attributes present.  A portfolio is a function from the   *)
(* held symbols to share counts.                                           *)
(***************************************************************************)
EXTENDS Integers, Sequences, FiniteSets, TLC

VARIABLES
    market_data,            \* the snapshot the investors buy from
    market_data_next_year,  \* the snapshot the portfolios are revalued with
    stdin,                  \* console input not yet read by input()
    output,                 \* what print() has written, one tag per line
    player_strategy,        \* a Strategy object, or None
    investors,              \* sequence of Investor objects, in creation order
    pc,                     \* position of the running operation
    ret,                    \* value returned by the operation
    err,                    \* exception that ended the operation, or "none"
    hist                    \* values at the time of the call, kept for the properties

vars == <<market_data, market_data_next_year, stdin, output, player_strategy,
          investors, pc, ret, err, hist>>

---------------------------------------------------------------------------
(* Bounds of the model *)

MantissaBits == 5   \* significant bits of a float in the model
MaxSyms == 11       \* symbols in the largest snapshot
PatLen == 3         \* period of the pattern a snapshot or a list is drawn from
MaxList == 11       \* entries in the longest caller-supplied symbol list
MaxBalance == 36    \* largest starting balance
MaxCalls == 2       \* invest calls on one investor
MaxPrice == 3       \* largest price of the snapshots a portfolio is valued with
MaxShares == 2      \* largest share count of a portfolio given to the valuation

(* Program constants *)

PickLimit == 10            \* the [:10] slices
DefaultBalance == 100000   \* Investor.__init__'s default balance
Hundred == 100             \* the factor of the percentage

SymbolNames ==
    <<"AAPL", "GOOGL", "MSFT", "AMZN", "FB", "NFLX", "TSLA", "BABA", "V", "MA",
      "INTC", "AMD", "PYPL", "CSCO", "IBM", "NVDA", "ORCL", "ACN", "KO", "PEP">>

---------------------------------------------------------------------------
(* Helpers *)

Min(a, b) == IF a <= b THEN a ELSE b

Abs(x) == IF x < 0 THEN -x ELSE x

Range(s) == {s[i] : i \in 1..Len(s)}

\* seq[:k]
Take(s, k) == SubSeq(s, 1, Min(k, Len(s)))

RECURSIVE Pow2(_)
Pow2(k) == IF k = 0 THEN 1 ELSE 2 * Pow2(k - 1)

---------------------------------------------------------------------------
(* Python floats, narrowed to MantissaBits significant bits *)

RECURSIVE Lowest(_, _)
Lowest(n, d) ==
    IF n = 0 THEN <<0, 1>>
    ELSE IF d > 1 /\ n % 2 = 0 THEN Lowest(n \div 2, d \div 2)
    ELSE <<n, d>>

\* a / d rounded to an integer, ties to the even one (a >= 0, d > 0)
RoundHalfEven(a, d) ==
    LET q == a \div d
        r == a % d
    IN  IF 2 * r < d THEN q
        ELSE IF 2 * r > d THEN q + 1
        ELSE IF q % 2 = 0 THEN q ELSE q + 1

\* (a / d) * (up / down) with a / d brought into [2^(p-1), 2^p) and rounded there
RECURSIVE RoundScaled(_, _, _, _)
RoundScaled(a, d, up, down) ==
    IF a >= Pow2(MantissaBits) * d THEN RoundScaled(a, 2 * d, 2 * up, down)
    ELSE IF a < Pow2(MantissaBits - 1) * d THEN RoundScaled(2 * a, d, up, 2 * down)
    ELSE Lowest(RoundHalfEven(a, d) * up, down)

\* the float nearest to the rational n / d (d > 0)
FRound(n, d) ==
    IF n = 0 THEN <<0, 1>>
    ELSE LET r == RoundScaled(Abs(n), d, 1, 1)
         IN  IF n < 0 THEN <<-r[1], r[2]>> ELSE r

\* int / int
DivII(a, b) == IF b < 0 THEN FRound(-a, -b) ELSE FRound(a, b)

\* float / int
DivFI(x, b) == IF b < 0 THEN FRound(-x[1], x[2] * (-b)) ELSE FRound(x[1], x[2] * b)

\* float * int
MulFI(x, k) == FRound(x[1] * k, x[2])

\* int(float): truncation toward zero
Trunc(x) == IF x[1] >= 0 THEN x[1] \div x[2] ELSE -((-x[1]) \div x[2])

\* comparison of two floats
FLess(x, y) == x[1] * y[2] < y[1] * x[2]

FZero == <<0, 1>>

---------------------------------------------------------------------------
(* Dictionaries in insertion order *)

Keys(d) == [i \in 1..Len(d) |-> d[i][1]]

Has(d, k) == \E i \in 1..Len(d) : d[i][1] = k

Lookup(d, k) == d[CHOOSE i \in 1..Len(d) : d[i][1] = k][2]

IndexOf(d, k) == CHOOSE i \in 1..Len(d) : d[i][1] = k

\* the sequence of length n that repeats the pattern pat
Cycle(n, pat) == [i \in 1..n |-> pat[((i - 1) % Len(pat)) + 1]]

\* a snapshot of the first n symbols whose data repeat the pattern pat
Snapshot(n, pat) == [i \in 1..n |-> <<SymbolNames[i], Cycle(n, pat)[i]>>]

Patterns(D) == UNION {[1..k -> D] : k \in 1..PatLen}

---------------------------------------------------------------------------
(* Strategies *)

None == [kind |-> "None", stocks |-> <<>>]

AggressiveStrategy == [kind |-> "Aggressive", stocks |-> <<>>]

ConservativeStrategy == [kind |-> "Conservative", stocks |-> <<>>]

RandomStrategy == [kind |-> "Random", stocks |-> <<>>]

CustomStrategy(stocks) == [kind |-> "Custom", stocks |-> stocks]

\* the sort keys: lambda x: x[1]['change'] and lambda x: abs(x[1]['change'])
SortKey(kind, item) ==
    IF kind = "Aggressive" THEN item[2].change ELSE Abs(item[2].change)

InsertStableWrong(s, x, kind) ==
    LET before == {i \in 1..Len(s) : SortKey(kind, s[i]) < SortKey(kind, x)}
        k == Cardinality(before)
    IN  SubSeq(s, 1, k) \o <<x>> \o SubSeq(s, k + 1, Len(s))

\* where a stable sort puts x among the sorted items s: after every item whose key
\* is not greater
InsertStable(s, x, kind) ==
    LET before == {i \in 1..Len(s) : SortKey(kind, s[i]) <= SortKey(kind, x)}
        k == Cardinality(before)
    IN  SubSeq(s, 1, k) \o <<x>> \o SubSeq(s, k + 1, Len(s))

\* sorted(market_data.items(), key = ...)
RECURSIVE Sorted(_, _)
Sorted(items, kind) ==
    IF items = <<>> THEN <<>>
    ELSE InsertStable(Sorted(SubSeq(items, 1, Len(items) - 1), kind),
                      items[Len(items)], kind)

SelectAggressive(md) == Keys(Take(Sorted(md, "Aggressive"), PickLimit))

SelectConservative(md) == Keys(Take(Sorted(md, "Conservative"), PickLimit))

RECURSIVE FilterIn(_, _)
FilterIn(stocks, md) ==
    IF stocks = <<>> THEN <<>>
    ELSE (IF Has(md, Head(stocks)) THEN <<Head(stocks)>> ELSE <<>>)
         \o FilterIn(Tail(stocks), md)

\* skips a symbol already taken, as get_player_stocks does
RECURSIVE FilterNew(_, _, _)
FilterNew(stocks, md, taken) ==
    IF stocks = <<>> THEN taken
    ELSE FilterNew(Tail(stocks), md,
                   IF Has(md, Head(stocks)) /\ Head(stocks) \notin Range(taken)
                   THEN Append(taken, Head(stocks)) ELSE taken)

SelectCustomWrong(stocks, md) == FilterNew(stocks, md, <<>>)

\* CustomStrategy.select_stocks
SelectCustom(stocks, md) == FilterIn(stocks, md)

\* strategy.select_stocks(market_data), for the strategies that return
select_stocks(strategy, md) ==
    CASE strategy.kind = "Aggressive" -> SelectAggressive(md)
      [] strategy.kind = "Conservative" -> SelectConservative(md)
      [] strategy.kind = "Custom" -> SelectCustom(strategy.stocks, md)

---------------------------------------------------------------------------
(* select_stocks called on its own: SpecSelect *)

ChangeData == {[price |-> 1, change |-> c] : c \in -2..2}

PlainData == [price |-> 1, change |-> 0]

ListSymbols == {SymbolNames[1], SymbolNames[2], SymbolNames[3]}

InitSelect ==
    /\ \/ /\ \E n \in 0..MaxSyms, pat \in Patterns(ChangeData) :
                market_data = Snapshot(n, pat)
          /\ player_strategy \in {AggressiveStrategy, ConservativeStrategy}
       \/ /\ \E n \in 0..2 : market_data = Snapshot(n, <<PlainData>>)
          /\ \E k \in 0..MaxList, pat \in Patterns(ListSymbols) :
                player_strategy = CustomStrategy(Cycle(k, pat))
    /\ market_data_next_year = <<>>
    /\ stdin = <<>>
    /\ output = <<>>
    /\ investors = <<>>
    /\ pc = "call"
    /\ ret = <<>>
    /\ err = "none"
    /\ hist = [market_data |-> market_data]

CallSelectStocks ==
    /\ pc = "call"
    /\ ret' = select_stocks(player_strategy, market_data)
    /\ pc' = "done"
    /\ UNCHANGED <<market_data, market_data_next_year, stdin, output,
                   player_strategy, investors, err, hist>>

NextSelect == CallSelectStocks

SpecSelect == InitSelect /\ [][NextSelect]_vars

NoDuplicates(s) == \A i, j \in 1..Len(s) : s[i] = s[j] => i = j

\* item a comes before item b in a stable sort by the key of kind
Precedes(md, kind, a, b) ==
    \/ SortKey(kind, <<a, Lookup(md, a)>>) < SortKey(kind, <<b, Lookup(md, b)>>)
    \/ /\ SortKey(kind, <<a, Lookup(md, a)>>) = SortKey(kind, <<b, Lookup(md, b)>>)
       /\ IndexOf(md, a) < IndexOf(md, b)

\* C5: the sorting strategies return the first min(10, n) symbols of the snapshot
\* in ascending order of their key (change, or abs(change)), ties in insertion
\* order: at most 10 symbols, all of the snapshot, none twice, every symbol left
\* out coming after every symbol returned; the snapshot is as it was.
C5_SortedSelection ==
    (pc = "done" /\ player_strategy.kind \in {"Aggressive", "Conservative"}) =>
        LET md == hist.market_data
            kind == player_strategy.kind
        IN  /\ market_data = md
            /\ Len(ret) = Min(PickLimit, Len(md))
            /\ Len(ret) <= PickLimit
            /\ Range(ret) \subseteq Range(Keys(md))
            /\ NoDuplicates(ret)
            /\ \A i, j \in 1..Len(ret) : i < j => Precedes(md, kind, ret[i], ret[j])
            /\ \A s \in Range(Keys(md)) \ Range(ret) :
                    \A i \in 1..Len(ret) : Precedes(md, kind, ret[i], s)

\* a snapshot of more than 10 symbols with tied keys has been sorted and cut
C5_Witness ==
    /\ pc = "done"
    /\ player_strategy.kind = "Conservative"
    /\ Len(market_data) > PickLimit
    /\ Len(ret) = PickLimit
    /\ \E i, j \in 1..Len(market_data) :
            /\ i < j
            /\ market_data[i][2].change = -market_data[j][2].change
            /\ market_data[i][2].change # 0
            /\ market_data[i][1] \in Range(ret)

\* the indices of the caller's entries that are symbols of the snapshot
Matching(stocks, md) == {i \in 1..Len(stocks) : Has(md, stocks[i])}

\* the j-th matching entry of the caller's list
NthMatch(stocks, md, j) ==
    stocks[CHOOSE i \in Matching(stocks, md) :
               Cardinality({k \in Matching(stocks, md) : k <= i}) = j]

\* C4 as stated: CustomStrategy.select_stocks returns only symbols of the
\* snapshot, in the caller's order, and never more than 10 of them.
C4_AsStated ==
    (pc = "done" /\ player_strategy.kind = "Custom") =>
        /\ Range(ret) \subseteq Range(Keys(market_data))
        /\ Len(ret) <= PickLimit
        /\ \A j \in 1..Len(ret) : ret[j] = NthMatch(player_strategy.stocks, market_data, j)

\* C4 amended: CustomStrategy.select_stocks returns exactly the caller's entries
\* that are symbols of the snapshot, in the caller's order, one per matching entry
\* (a repeated symbol is returned as often as it is listed); it applies no cap of
\* its own, so the result holds at most 10 symbols when the caller's list holds
\* at most 10 entries.
C4_FilterOnly ==
    (pc = "done" /\ player_strategy.kind = "Custom") =>
        LET stocks == player_strategy.stocks
        IN  /\ Range(ret) \subseteq Range(Keys(market_data))
            /\ Len(ret) = Cardinality(Matching(stocks, market_data))
            /\ \A j \in 1..Len(ret) : ret[j] = NthMatch(stocks, market_data, j)
            /\ Len(stocks) <= PickLimit => Len(ret) <= PickLimit

\* a list of more than 10 entries, some of them unknown symbols, has been filtered
C4_Witness ==
    /\ pc = "done"
    /\ player_strategy.kind = "Custom"
    /\ Len(player_strategy.stocks) > PickLimit
    /\ 0 < Len(ret)
    /\ Len(ret) < Len(player_strategy.stocks)

---------------------------------------------------------------------------
(* create_custom_strategy (the second, live definition) called on its own:
   SpecCriteria *)

\* a float that may be float('inf')
Fin(n) == [inf |-> FALSE, v |-> n]

PosInf == [inf |-> TRUE, v |-> 0]

\* a <= b on such floats
Leq(a, b) == IF a.inf THEN b.inf ELSE (b.inf \/ a.v <= b.v)

\* data.get(attr, float('inf'))
GetOrInf(data, attr) == IF attr \in DOMAIN data THEN Fin(data[attr]) ELSE PosInf

\* A line of console input, split at the commas and converted by float(): the
\* numbers, or not ok when float() raises ValueError.
Line(values) == [text |-> "", ok |-> TRUE, values |-> values, symbols |-> <<>>]

InvalidLine == [text |-> "", ok |-> FALSE, values |-> <<>>, symbols |-> <<>>]

\* A line typed at a menu (its text), and a line of comma-separated symbols
\* (stripped and upper-cased)
ChoiceLine(c) == [text |-> c, ok |-> FALSE, values |-> <<>>, symbols |-> <<c>>]

SymbolLine(symbols) == [text |-> "", ok |-> FALSE, values |-> <<>>, symbols |-> symbols]

\* safe_float_input: reads lines until one holds exactly two numbers
RECURSIVE safe_float_input(_, _)
safe_float_input(lines, printed) ==
    IF lines = <<>> THEN [values |-> <<>>, rest |-> <<>>, printed |-> printed, eof |-> TRUE]
    ELSE IF ~Head(lines).ok
         THEN safe_float_input(Tail(lines), Append(printed, "Invalid input"))
    ELSE IF Len(Head(lines).values) = 2
         THEN [values |-> Head(lines).values, rest |-> Tail(lines), printed |-> printed,
               eof |-> FALSE]
    ELSE safe_float_input(Tail(lines), Append(printed, "Please enter exactly two values"))

\* a missing attribute passes its bounds (not what line 158 does)
MeetsBoundsLenient(data, attr, lo, hi) ==
    attr \notin DOMAIN data \/ (Leq(lo, Fin(data[attr])) /\ Leq(Fin(data[attr]), hi))

\* min <= data.get(attr, float('inf')) <= max
MeetsBounds(data, attr, lo, hi) ==
    Leq(lo, GetOrInf(data, attr)) /\ Leq(GetOrInf(data, attr), hi)

\* the comprehension of lines 156-160
RECURSIVE SelectByCriteria(_, _, _)
SelectByCriteria(md, cap, vol) ==
    IF md = <<>> THEN <<>>
    ELSE (IF /\ MeetsBounds(Head(md)[2], "market_cap", cap[1], cap[2])
             /\ MeetsBounds(Head(md)[2], "volatility", vol[1], vol[2])
          THEN <<Head(md)[1]>> ELSE <<>>)
         \o SelectByCriteria(Tail(md), cap, vol)

\* create_custom_strategy(market_data) reading its bounds from lines
create_custom_strategy(md, lines) ==
    LET cap == safe_float_input(lines, <<>>)
        vol == safe_float_input(cap.rest, cap.printed)
        selected_stocks == SelectByCriteria(md, cap.values, vol.values)
    IN  IF cap.eof \/ vol.eof
        THEN [ret |-> None, stdin |-> <<>>, printed |-> vol.printed, err |-> "EOFError",
              bounds |-> <<>>]
        ELSE [ret |-> IF selected_stocks = <<>> THEN None
                      ELSE CustomStrategy(Take(selected_stocks, PickLimit)),
              stdin |-> vol.rest,
              printed |-> vol.printed \o <<"Selected stocks based on criteria">>
                          \o (IF selected_stocks = <<>>
                              THEN <<"No valid stocks to invest in based on the criteria provided.">>
                              ELSE <<>>),
              err |-> "none",
              bounds |-> <<cap.values, vol.values>>]

CriteriaData ==
    {[price |-> 1, market_cap |-> 1, volatility |-> 1],
     [price |-> 1, market_cap |-> 3, volatility |-> 1],
     [price |-> 1, volatility |-> 1],
     [price |-> 1, market_cap |-> 1]}

CapBounds == {<<Fin(lo), hi>> : lo \in {0, 2}, hi \in {Fin(2), PosInf}}

VolBounds == {<<Fin(lo), hi>> : lo \in {0, 2}, hi \in {Fin(1), PosInf}}

InitCriteria ==
    /\ \E n \in 0..MaxSyms, pat \in Patterns(CriteriaData) :
            market_data = Snapshot(n, pat)
    /\ \E cap \in CapBounds, vol \in VolBounds :
            stdin \in {<<Line(cap), Line(vol)>>,
                       <<InvalidLine, Line(cap), Line(vol)>>,
                       <<Line(cap), Line(<<Fin(1)>>), Line(vol)>>}
    /\ market_data_next_year = <<>>
    /\ output = <<>>
    /\ player_strategy = None
    /\ investors = <<>>
    /\ pc = "call"
    /\ ret = None
    /\ err = "none"
    /\ hist = [market_data |-> market_data]

CallCreateCustomStrategy ==
    /\ pc = "call"
    /\ LET r == create_custom_strategy(market_data, stdin)
       IN  /\ ret' = r.ret
           /\ stdin' = r.stdin
           /\ output' = output \o r.printed
           /\ err' = r.err
           /\ hist' = [market_data |-> market_data, bounds |-> r.bounds]
    /\ pc' = "done"
    /\ UNCHANGED <<market_data, market_data_next_year, player_strategy, investors>>

NextCriteria == CallCreateCustomStrategy

SpecCriteria == InitCriteria /\ [][NextCriteria]_vars

\* the indices of the snapshot's symbols that pass both bounds, a missing
\* attribute passing
QualifyLenient(md, b) ==
    {i \in 1..Len(md) :
        /\ MeetsBoundsLenient(md[i][2], "market_cap", b[1][1], b[1][2])
        /\ MeetsBoundsLenient(md[i][2], "volatility", b[2][1], b[2][2])}

\* the same, a missing attribute compared as +infinity
QualifyInf(md, b) ==
    {i \in 1..Len(md) :
        /\ \/ "market_cap" \in DOMAIN md[i][2] /\ b[1][1].v <= md[i][2].market_cap
                /\ (b[1][2].inf \/ md[i][2].market_cap <= b[1][2].v)
           \/ "market_cap" \notin DOMAIN md[i][2] /\ b[1][2].inf
        /\ \/ "volatility" \in DOMAIN md[i][2] /\ b[2][1].v <= md[i][2].volatility
                /\ (b[2][2].inf \/ md[i][2].volatility <= b[2][2].v)
           \/ "volatility" \notin DOMAIN md[i][2] /\ b[2][2].inf}

\* s holds the first 10 symbols of md at the indices Q, in snapshot order
IsFirstTen(s, md, Q) ==
    /\ Len(s) = Min(PickLimit, Cardinality(Q))
    /\ \A j \in 1..Len(s) :
           \E i \in Q : Cardinality({k \in Q : k <= i}) = j /\ s[j] = md[i][1]

\* what the strategy built selects from the snapshot (nothing when none was built)
Selection == IF ret = None THEN <<>> ELSE select_stocks(ret, market_data)

\* C6 as stated: the criteria-based strategy selects the first 10, in snapshot
\* order, of the symbols within both bounds, a symbol lacking an attribute
\* counting as within that attribute's bounds.
C6_AsStated ==
    (pc = "done" /\ err = "none") =>
        IsFirstTen(Selection, market_data, QualifyLenient(market_data, hist.bounds))

\* C6 amended: the criteria-based strategy selects the first 10, in snapshot
\* order, of the symbols within both bounds, a missing attribute being compared
\* as +infinity: it passes the lower bound and passes the upper bound only when
\* that bound is +infinity. When no symbol qualifies no strategy is built (None).
C6_MissingIsInfinity ==
    (pc = "done" /\ err = "none") =>
        /\ IsFirstTen(Selection, market_data, QualifyInf(market_data, hist.bounds))
        /\ (ret = None) <=> (QualifyInf(market_data, hist.bounds) = {})
        /\ ret # None => ret.kind = "Custom"

\* more than 10 symbols qualify, one of those selected lacking its market_cap
\* (under an infinite upper bound)
C6_Witness ==
    /\ pc = "done"
    /\ err = "none"
    /\ ret # None
    /\ Len(ret.stocks) = PickLimit
    /\ Cardinality(QualifyInf(market_data, hist.bounds)) > PickLimit
    /\ \E i \in 1..Len(market_data) :
           /\ "market_cap" \notin DOMAIN market_data[i][2]
           /\ market_data[i][1] \in Range(ret.stocks)

---------------------------------------------------------------------------
(* Investor *)

\* Investor.__init__
Investor(name, strategy, balance) ==
    [name |-> name, strategy |-> strategy, balance |-> balance, portfolio |-> <<>>]

\* the exception self.strategy.select_stocks(market_data) ends with, or "none":
\* None has no select_stocks, the module never imports random, and the sort keys
\* index 'change'
SelectError(strategy, md) ==
    CASE strategy.kind = "None" -> "AttributeError"
      [] strategy.kind = "Random" -> "NameError"
      [] strategy.kind \in {"Aggressive", "Conservative"} ->
            IF \E i \in 1..Len(md) : "change" \notin DOMAIN md[i][2]
            THEN "KeyError" ELSE "none"
      [] OTHER -> "none"

\* shares_to_buy = int(amount_per_stock / market_data[stock]['price'])
SharesToBuy(amount_per_stock, price) == Trunc(DivFI(amount_per_stock, price))

\* the for loop of invest over the stocks still to buy
RECURSIVE BuyLoop(_, _, _, _, _)
BuyLoop(stocks, amount_per_stock, balance, portfolio, md) ==
    IF stocks = <<>> THEN [balance |-> balance, portfolio |-> portfolio]
    ELSE LET stock == Head(stocks)
             price == Lookup(md, stock).price
             shares_to_buy == SharesToBuy(amount_per_stock, price)
         IN  BuyLoop(Tail(stocks), amount_per_stock, balance - shares_to_buy * price,
                     (stock :> shares_to_buy) @@ portfolio, md)

\* invest without the check of num_stocks
investUnguarded(inv, md) ==
    LET stocks_to_buy == select_stocks(inv.strategy, md)
    IN  IF Len(stocks_to_buy) = 0
        THEN [investor |-> inv, printed |-> <<>>, err |-> "ZeroDivisionError"]
        ELSE LET b == BuyLoop(stocks_to_buy, DivII(inv.balance, Len(stocks_to_buy)),
                              inv.balance, inv.portfolio, md)
             IN  [investor |-> [inv EXCEPT !.balance = b.balance,
                                           !.portfolio = b.portfolio],
                  printed |-> <<>>, err |-> "none"]

\* Investor.invest(market_data): the investor afterwards, what was printed, and
\* the exception that ended the call
invest(inv, md) ==
    IF SelectError(inv.strategy, md) # "none"
    THEN [investor |-> inv, printed |-> <<>>, err |-> SelectError(inv.strategy, md)]
    ELSE LET stocks_to_buy == select_stocks(inv.strategy, md)
             num_stocks == Len(stocks_to_buy)
         IN  IF num_stocks = 0
             THEN [investor |-> inv, printed |-> <<"No valid stocks to invest in.">>,
                   err |-> "none"]
             ELSE LET amount_per_stock == DivII(inv.balance, num_stocks)
                      b == BuyLoop(stocks_to_buy, amount_per_stock, inv.balance,
                                   inv.portfolio, md)
                  IN  [investor |-> [inv EXCEPT !.balance = b.balance,
                                                !.portfolio = b.portfolio],
                       printed |-> <<>>, err |-> "none"]

---------------------------------------------------------------------------
(* invest called repeatedly on one investor: SpecInvest *)

InvestData ==
    {[price |-> 1, change |-> -1], [price |-> 2, change |-> 1],
     [price |-> 3, change |-> 1]}

InvestSnapshots == {Snapshot(n, pat) : n \in 0..2, pat \in [1..2 -> InvestData]}

InvestLists ==
    {<<>>, <<SymbolNames[1]>>, <<SymbolNames[3]>>,
     <<SymbolNames[1], SymbolNames[2]>>, <<SymbolNames[2], SymbolNames[1]>>,
     <<SymbolNames[1], SymbolNames[1]>>, <<SymbolNames[1], SymbolNames[3]>>}

InvestStrategies ==
    {AggressiveStrategy, ConservativeStrategy} \cup {CustomStrategy(l) : l \in InvestLists}

InitInvest ==
    /\ \E s \in InvestStrategies, b \in 1..MaxBalance :
            investors = <<Investor("Player", s, b)>>
    /\ market_data = <<>>
    /\ market_data_next_year = <<>>
    /\ stdin = <<>>
    /\ output = <<>>
    /\ player_strategy = investors[1].strategy
    /\ pc = "call"
    /\ ret = <<>>
    /\ err = "none"
    /\ hist = [calls |-> 0, balance_before |-> investors[1].balance,
               portfolio_before |-> <<>>, wrote |-> <<>>]

\* one call investors[1].invest(md) on a snapshot md
CallInvest ==
    /\ pc = "call"
    /\ hist.calls < MaxCalls
    /\ \E md \in InvestSnapshots : \E r \in {invest(investors[1], md)} :
        LET bought == IF r.err = "none" THEN Range(select_stocks(player_strategy, md))
                      ELSE {}
        IN  /\ market_data' = md
            /\ investors' = <<r.investor>>
            /\ output' = output \o r.printed
            /\ err' = r.err
            /\ pc' = IF r.err = "none" THEN "call" ELSE "crashed"
            /\ hist' = [calls |-> hist.calls + 1,
                        balance_before |-> investors[1].balance,
                        portfolio_before |-> investors[1].portfolio,
                        wrote |-> [s \in bought |-> md] @@ hist.wrote]
    /\ UNCHANGED <<market_data_next_year, stdin, player_strategy, ret>>

NextInvest == CallInvest

SpecInvest == InitInvest /\ [][NextInvest]_vars

\* the strategy selects nothing from the snapshot
EmptySelection(strategy, md) ==
    \/ strategy.kind = "Custom" /\ \A i \in 1..Len(strategy.stocks) : ~Has(md, strategy.stocks[i])
    \/ strategy.kind \in {"Aggressive", "Conservative"} /\ md = <<>>

\* the sum of floor((balance / count) / price) * price over the entries of sel
RECURSIVE ExactCost(_, _, _, _)
ExactCost(sel, count, balance, md) ==
    IF sel = <<>> THEN 0
    ELSE (balance \div (count * Lookup(md, Head(sel)).price)) * Lookup(md, Head(sel)).price
         + ExactCost(Tail(sel), count, balance, md)

\* the value of a portfolio at the prices of md
RECURSIVE HeldValue(_, _, _)
HeldValue(portfolio, md, syms) ==
    IF syms = {} THEN 0
    ELSE LET s == CHOOSE x \in syms : TRUE
         IN  portfolio[s] * Lookup(md, s).price + HeldValue(portfolio, md, syms \ {s})

\* C1 as stated: after one invest call of an investor with a positive balance on a
\* snapshot of positive prices, the balance is >= 0 and is the balance before
\* minus the sum over the selected entries of floor((before / count) / price)
\* shares at their price, so holdings at purchase prices plus balance never
\* exceed the balance before.
C1_AsStated ==
    (hist.calls = 1 /\ err = "none") =>
        LET inv == investors[1]
            sel == select_stocks(inv.strategy, market_data)
        IN  /\ inv.balance >= 0
            /\ inv.balance =
                   hist.balance_before - ExactCost(sel, Len(sel), hist.balance_before, market_data)
            /\ HeldValue(inv.portfolio, market_data, DOMAIN inv.portfolio) + inv.balance
                   <= hist.balance_before

\* C2: an invest call whose strategy selects nothing from the snapshot leaves the
\* balance and the holdings as they were, raises nothing (no division by the zero
\* count) and prints "No valid stocks to invest in." as its last line.
C2_EmptySelectionNoOp ==
    (hist.calls > 0 /\ EmptySelection(player_strategy, market_data)) =>
        /\ investors[1].balance = hist.balance_before
        /\ investors[1].portfolio = hist.portfolio_before
        /\ err = "none"
        /\ pc # "crashed"
        /\ Len(output) > 0
        /\ output[Len(output)] = "No valid stocks to invest in."

\* an investor holding shares makes a call that selects nothing
C2_Witness ==
    /\ hist.calls = MaxCalls
    /\ EmptySelection(player_strategy, market_data)
    /\ player_strategy.kind = "Custom"
    /\ player_strategy.stocks # <<>>
    /\ \E s \in DOMAIN investors[1].portfolio : investors[1].portfolio[s] > 0
    /\ output = <<"No valid stocks to invest in.">>

\* C10 as stated: over any sequence of invest calls the balance never increases
\* from one call to the next and is never negative, and every share count held is
\* non-negative, for a symbol of the snapshot of the call that wrote it.
C10_AsStated ==
    /\ investors[1].balance <= hist.balance_before
    /\ investors[1].balance >= 0
    /\ \A s \in DOMAIN investors[1].portfolio :
           /\ investors[1].portfolio[s] >= 0
           /\ Has(hist.wrote[s], s)

---------------------------------------------------------------------------
(* calculate_portfolio_return *)

\* a Python number: an int, or a float
IntNum(n) == [type |-> "int", val |-> <<n, 1>>]

FloatNum(x) == [type |-> "float", val |-> x]

\* a == b on Python numbers: the values are compared, not the types
NumEq(a, b) == a.val = b.val

\* sum(snapshot[stock]['price'] * quantity for stock in syms)
RECURSIVE SumValue(_, _, _)
SumValue(portfolio, snapshot, syms) ==
    IF syms = {} THEN 0
    ELSE LET s == CHOOSE x \in syms : TRUE
         IN  Lookup(snapshot, s).price * portfolio[s]
             + SumValue(portfolio, snapshot, syms \ {s})

\* ((final_value - initial_value) / initial_value) * 100
Percent(final_value, initial_value) ==
    FloatNum(MulFI(DivII(final_value - initial_value, initial_value), Hundred))

\* calculate_portfolio_return with the sum of line 188 unfiltered, like line 187
calculate_portfolio_return_unfiltered(portfolio, initial_market_data, final_market_data) ==
    IF \E s \in DOMAIN portfolio : ~Has(initial_market_data, s) \/ ~Has(final_market_data, s)
    THEN [ret |-> IntNum(0), printed |-> <<>>, err |-> "KeyError"]
    ELSE LET initial_value == SumValue(portfolio, initial_market_data, DOMAIN portfolio)
             final_value == SumValue(portfolio, final_market_data, DOMAIN portfolio)
         IN  IF initial_value = 0
             THEN [ret |-> IntNum(0),
                   printed |-> <<"Initial portfolio value is zero; no investments were made.">>,
                   err |-> "none"]
             ELSE [ret |-> Percent(final_value, initial_value), printed |-> <<>>,
                   err |-> "none"]

\* calculate_portfolio_return without the check of initial_value
calculate_portfolio_return_unguarded(portfolio, initial_market_data, final_market_data) ==
    IF \E s \in DOMAIN portfolio : ~Has(initial_market_data, s)
    THEN [ret |-> IntNum(0), printed |-> <<>>, err |-> "KeyError"]
    ELSE LET initial_value == SumValue(portfolio, initial_market_data, DOMAIN portfolio)
             final_value ==
                 SumValue(portfolio, final_market_data,
                          {s \in DOMAIN portfolio : Has(final_market_data, s)})
         IN  IF initial_value = 0
             THEN [ret |-> IntNum(0), printed |-> <<>>, err |-> "ZeroDivisionError"]
             ELSE [ret |-> Percent(final_value, initial_value), printed |-> <<>>,
                   err |-> "none"]

\* calculate_portfolio_return(portfolio, initial_market_data, final_market_data):
\* the value returned, what was printed, and the exception that ended the call.
\* Line 187 indexes initial_market_data with every held symbol; line 188 skips the
\* held symbols that final_market_data lacks.
calculate_portfolio_return(portfolio, initial_market_data, final_market_data) ==
    IF \E s \in DOMAIN portfolio : ~Has(initial_market_data, s)
    THEN [ret |-> IntNum(0), printed |-> <<>>, err |-> "KeyError"]
    ELSE LET initial_value == SumValue(portfolio, initial_market_data, DOMAIN portfolio)
             final_value ==
                 SumValue(portfolio, final_market_data,
                          {s \in DOMAIN portfolio : Has(final_market_data, s)})
         IN  IF initial_value = 0
             THEN [ret |-> IntNum(0),
                   printed |-> <<"Initial portfolio value is zero; no investments were made.">>,
                   err |-> "none"]
             ELSE [ret |-> Percent(final_value, initial_value), printed |-> <<>>,
                   err |-> "none"]

---------------------------------------------------------------------------
(* calculate_portfolio_return called on its own: SpecReturn *)

PriceData == {[price |-> p] : p \in 1..MaxPrice}

PriceSnapshots == {Snapshot(n, pat) : n \in 0..2, pat \in [1..2 -> PriceData]}

\* the portfolios over the first two symbols
Portfolios ==
    UNION {[held -> 0..MaxShares] : held \in SUBSET {SymbolNames[1], SymbolNames[2]}}

\* the scenario of 10 shares bought at 100 and revalued at 120
ExamplePortfolio == (SymbolNames[1] :> 10)

ExampleInitial == <<<<SymbolNames[1], [price |-> 100]>>>>

ExampleFinal == <<<<SymbolNames[1], [price |-> 120]>>>>

InitReturn ==
    /\ \/ /\ market_data \in PriceSnapshots
          /\ market_data_next_year \in PriceSnapshots
          /\ \E pf \in Portfolios : investors = <<[Investor("Player", None, 0)
                                                      EXCEPT !.portfolio = pf]>>
       \/ /\ market_data = ExampleInitial
          /\ market_data_next_year = ExampleFinal
          /\ investors = <<[Investor("Player", None, 0)
                              EXCEPT !.portfolio = ExamplePortfolio]>>
    /\ stdin = <<>>
    /\ output = <<>>
    /\ player_strategy = None
    /\ pc = "call"
    /\ ret = IntNum(0)
    /\ err = "none"
    /\ hist = [market_data |-> market_data]

CallCalculatePortfolioReturn ==
    /\ pc = "call"
    /\ \E r \in {calculate_portfolio_return(investors[1].portfolio, market_data,
                                              market_data_next_year)} :
           /\ ret' = r.ret
           /\ output' = output \o r.printed
           /\ err' = r.err
    /\ pc' = "done"
    /\ UNCHANGED <<market_data, market_data_next_year, stdin, player_strategy,
                   investors, hist>>

NextReturn == CallCalculatePortfolioReturn

SpecReturn == InitReturn /\ [][NextReturn]_vars

\* the value of a holdings map under a snapshot: shares * price over the held
\* symbols the snapshot has, the others contributing 0
RECURSIVE ValueUnder(_, _, _)
ValueUnder(portfolio, snapshot, syms) ==
    IF syms = {} THEN 0
    ELSE LET s == CHOOSE x \in syms : TRUE
         IN  (IF Has(snapshot, s) THEN portfolio[s] * Lookup(snapshot, s).price ELSE 0)
             + ValueUnder(portfolio, snapshot, syms \ {s})

Held == investors[1].portfolio

InitialValue == ValueUnder(Held, market_data, DOMAIN Held)

FinalValue == ValueUnder(Held, market_data_next_year, DOMAIN Held)

IsExample ==
    Held = ExamplePortfolio /\ market_data = ExampleInitial
        /\ market_data_next_year = ExampleFinal

\* C7 as stated: calculate_portfolio_return values the holdings under both
\* snapshots with a held symbol that a snapshot lacks contributing 0 and no
\* error, and returns ((final - initial) / initial) * 100 when the initial value
\* is not 0 (10 shares at 100 revalued at 120 give 20).
C7_AsStated ==
    pc = "done" =>
        /\ err = "none"
        /\ InitialValue # 0 => ret = Percent(FinalValue, InitialValue)
        /\ IsExample => NumEq(ret, IntNum(20))

\* C7 amended: the final value is the sum of shares * price over the held symbols
\* present in the final snapshot, an absent one contributing 0 without error; the
\* initial value is that sum over every held symbol, and a held symbol absent
\* from the initial snapshot ends the call with a KeyError. With every held
\* symbol in the initial snapshot the call returns
\* ((final - initial) / initial) * 100 when the initial value is not 0 (10 shares
\* at 100 revalued at 120 give 20).
C7_FinalSkipsInitialRaises ==
    pc = "done" =>
        /\ (\E s \in DOMAIN Held : ~Has(market_data, s)) <=> (err = "KeyError")
        /\ err \in {"none", "KeyError"}
        /\ (err = "none" /\ InitialValue # 0) =>
               /\ ret = Percent(FinalValue, InitialValue)
               /\ output = <<>>
        /\ IsExample => NumEq(ret, IntNum(20))

\* a portfolio with a priced holding that the final snapshot lacks has been valued
C7_Witness ==
    /\ pc = "done"
    /\ err = "none"
    /\ InitialValue # 0
    /\ \E s \in DOMAIN Held : Held[s] > 0 /\ ~Has(market_data_next_year, s)
    /\ \E s \in DOMAIN Held : Held[s] > 0 /\ Has(market_data_next_year, s)
    /\ ret.type = "float"
    /\ ret.val # FZero

\* C8 as stated: with an initial value of 0 the call returns exactly 0 without
\* dividing, and the result tells the caller that there was no baseline: a result
\* equal to 0 is returned only then, never for a portfolio whose value did not
\* change.
C8_AsStated ==
    (pc = "done" /\ err = "none") =>
        /\ InitialValue = 0 => NumEq(ret, IntNum(0))
        /\ NumEq(ret, IntNum(0)) => InitialValue = 0

\* C8 amended: with an initial value of 0 the call returns exactly 0 without
\* dividing and prints "Initial portfolio value is zero; no investments were
\* made."; that console line, printed in this case only, is the one signal: the
\* value returned equals the 0 returned for a portfolio whose value did not
\* change.
C8_ZeroBaselinePrinted ==
    (pc = "done" /\ err # "KeyError") =>
        /\ err = "none"
        /\ InitialValue = 0 =>
               /\ ret = IntNum(0)
               /\ output = <<"Initial portfolio value is zero; no investments were made.">>
        /\ InitialValue # 0 =>
               /\ output = <<>>
               /\ (FinalValue = InitialValue => NumEq(ret, IntNum(0)))

\* holdings of zero shares only, valued at positive prices, have no baseline
C8_Witness ==
    /\ pc = "done"
    /\ err = "none"
    /\ DOMAIN Held # {}
    /\ \A s \in DOMAIN Held : Held[s] = 0 /\ Lookup(market_data, s).price > 0
    /\ ret = IntNum(0)
    /\ output # <<>>

---------------------------------------------------------------------------
(* compare_portfolios *)

\* d[k] = v on a dict: a new key goes last, a known key keeps its place
Put(d, k, v) ==
    IF Has(d, k) THEN [i \in 1..Len(d) |-> IF d[i][1] = k THEN <<k, v>> ELSE d[i]]
    ELSE Append(d, <<k, v>>)

\* the for loop of compare_portfolios over the investors from index i on
RECURSIVE CollectReturns(_, _, _, _, _)
CollectReturns(invs, i, initial_market_data, final_market_data, acc) ==
    IF i > Len(invs) \/ acc.err # "none" THEN acc
    ELSE LET r == calculate_portfolio_return(invs[i].portfolio, initial_market_data,
                                             final_market_data)
         IN  CollectReturns(invs, i + 1, initial_market_data, final_market_data,
                 IF r.err # "none"
                 THEN [acc EXCEPT !.err = r.err, !.printed = @ \o r.printed]
                 ELSE [results |-> Put(acc.results, invs[i].name, r.ret),
                       printed |-> acc.printed \o r.printed \o <<"portfolio return">>,
                       err |-> "none"])

\* a maximum that a later equal value replaces
RECURSIVE MaxKeyLast(_, _, _)
MaxKeyLast(d, i, best) ==
    IF i > Len(d) THEN d[best][1]
    ELSE MaxKeyLast(d, i + 1, IF FLess(d[i][2].val, d[best][2].val) THEN best ELSE i)

\* max(results, key = results.get) from index i on, best the index of the maximum
\* so far: only a strictly greater value replaces it
RECURSIVE MaxKey(_, _, _)
MaxKey(d, i, best) ==
    IF i > Len(d) THEN d[best][1]
    ELSE MaxKey(d, i + 1, IF FLess(d[best][2].val, d[i][2].val) THEN i ELSE best)

BestLast(results) == MaxKeyLast(results, 2, 1)

\* best_performer = max(results, key=results.get), results not empty
Best(results) == MaxKey(results, 2, 1)

\* compare_portfolios(investors, initial_market_data, final_market_data)
compare_portfolios(invs, initial_market_data, final_market_data) ==
    LET c == CollectReturns(invs, 1, initial_market_data, final_market_data,
                            [results |-> <<>>, printed |-> <<>>, err |-> "none"])
    IN  IF c.err # "none"
        THEN [results |-> c.results, best_performer |-> "", printed |-> c.printed,
              err |-> c.err]
        ELSE IF c.results = <<>>
        THEN [results |-> c.results, best_performer |-> "", printed |-> c.printed,
              err |-> "ValueError"]
        ELSE [results |-> c.results, best_performer |-> Best(c.results),
              printed |-> c.printed \o <<"The best performing portfolio">>,
              err |-> "none"]

---------------------------------------------------------------------------
(* compare_portfolios called on its own: SpecCompare *)

InvestorNames == <<"Alice", "Bob", "Player">>

\* holdings bought from a snapshot of the first two symbols
HoldingsToCompare ==
    {<<>>, (SymbolNames[1] :> 1), (SymbolNames[2] :> 1), (SymbolNames[1] :> 2),
     (SymbolNames[1] :> 1) @@ (SymbolNames[2] :> 1), (SymbolNames[2] :> 0)}

InitCompare ==
    /\ \E pat \in [1..2 -> PriceData] : market_data = Snapshot(2, pat)
    /\ market_data_next_year \in PriceSnapshots
    /\ \E n \in 1..3 : \E pfs \in [1..n -> HoldingsToCompare] :
           investors = [i \in 1..n |->
                           [Investor(InvestorNames[i], AggressiveStrategy, 0)
                               EXCEPT !.portfolio = pfs[i]]]
    /\ stdin = <<>>
    /\ output = <<>>
    /\ player_strategy = None
    /\ pc = "call"
    /\ ret = [results |-> <<>>, best_performer |-> ""]
    /\ err = "none"
    /\ hist = [market_data |-> market_data,
               market_data_next_year |-> market_data_next_year,
               investors |-> investors]

CallComparePortfolios ==
    /\ pc = "call"
    /\ \E r \in {compare_portfolios(investors, market_data, market_data_next_year)} :
           /\ ret' = [results |-> r.results, best_performer |-> r.best_performer]
           /\ output' = output \o r.printed
           /\ err' = r.err
    /\ pc' = "done"
    /\ UNCHANGED <<market_data, market_data_next_year, stdin, player_strategy,
                   investors, hist>>

NextCompare == CallComparePortfolios

SpecCompare == InitCompare /\ [][NextCompare]_vars

\* the percent return of investor i
ReturnOf(i) ==
    calculate_portfolio_return(investors[i].portfolio, market_data,
                               market_data_next_year).ret

\* C9: for a non-empty sequence of investors with unique names,
\* compare_portfolios records each investor's percent return under their name
\* and picks as best performer an investor whose return is maximal, the first
\* such investor in the input order; the investors and both snapshots are as
\* they were.
C9_BestIsFirstMaximum ==
    (pc = "done" /\ err = "none") =>
        /\ Len(ret.results) = Len(investors)
        /\ \A i \in 1..Len(investors) :
               /\ Has(ret.results, investors[i].name)
               /\ Lookup(ret.results, investors[i].name) = ReturnOf(i)
        /\ \E k \in 1..Len(investors) :
               /\ ret.best_performer = investors[k].name
               /\ \A j \in 1..Len(investors) : ~FLess(ReturnOf(k).val, ReturnOf(j).val)
               /\ \A j \in 1..(k - 1) : FLess(ReturnOf(j).val, ReturnOf(k).val)
        /\ investors = hist.investors
        /\ market_data = hist.market_data
        /\ market_data_next_year = hist.market_data_next_year

\* three investors, the second and the third with the same maximal return, which
\* is not 0, and with different holdings
C9_Witness ==
    /\ pc = "done"
    /\ err = "none"
    /\ Len(investors) = 3
    /\ ret.best_performer = investors[2].name
    /\ ReturnOf(3).val = ReturnOf(2).val
    /\ ReturnOf(2).val # FZero
    /\ investors[2].portfolio # investors[3].portfolio

---------------------------------------------------------------------------
(* The menus *)

\* the for loop of get_player_stocks over the symbols still to read
RECURSIVE PlayerStocksLoop(_, _, _, _)
PlayerStocksLoop(stock_list, md, player_stocks, printed) ==
    IF stock_list = <<>> THEN [player_stocks |-> player_stocks, printed |-> printed]
    ELSE LET stock == Head(stock_list)
         IN  IF Has(md, stock)
             THEN IF stock \notin Range(player_stocks) /\ Len(player_stocks) < PickLimit
                  THEN PlayerStocksLoop(Tail(stock_list), md,
                                        Append(player_stocks, stock), printed)
                  ELSE IF Len(player_stocks) >= PickLimit
                  THEN [player_stocks |-> player_stocks,
                        printed |-> Append(printed, "Maximum of 10 stocks reached.")]
                  ELSE PlayerStocksLoop(Tail(stock_list), md, player_stocks, printed)
             ELSE PlayerStocksLoop(Tail(stock_list), md, player_stocks,
                                   Append(printed, "Invalid stock symbol"))

\* get_player_stocks(market_data) reading its line from lines
get_player_stocks(md, lines) ==
    IF lines = <<>>
    THEN [ret |-> <<>>, stdin |-> <<>>, printed |-> <<>>, err |-> "EOFError"]
    ELSE LET r == PlayerStocksLoop(Head(lines).symbols, md, <<>>, <<>>)
         IN  [ret |-> r.player_stocks, stdin |-> Tail(lines), printed |-> r.printed,
              err |-> "none"]

\* choose_predefined_strategy(), which asks again after an invalid choice
RECURSIVE choose_predefined_strategy(_, _)
choose_predefined_strategy(lines, printed) ==
    IF lines = <<>>
    THEN [ret |-> None, stdin |-> <<>>, printed |-> printed, err |-> "EOFError"]
    ELSE LET strategy_choice == Head(lines).text
         IN  IF strategy_choice = "1"
             THEN [ret |-> AggressiveStrategy, stdin |-> Tail(lines),
                   printed |-> printed, err |-> "none"]
             ELSE IF strategy_choice = "2"
             THEN [ret |-> ConservativeStrategy, stdin |-> Tail(lines),
                   printed |-> printed, err |-> "none"]
             ELSE IF strategy_choice = "3"
             THEN [ret |-> RandomStrategy, stdin |-> Tail(lines),
                   printed |-> printed, err |-> "none"]
             ELSE choose_predefined_strategy(Tail(lines),
                      Append(printed, "Invalid choice. Please select a valid strategy."))

\* player_options_menu(market_data), which asks again after an invalid choice
RECURSIVE player_options_menu(_, _, _)
player_options_menu(md, lines, printed) ==
    IF lines = <<>>
    THEN [ret |-> None, stdin |-> <<>>, printed |-> printed, err |-> "EOFError",
          choice |-> "", bounds |-> <<>>]
    ELSE LET choice == Head(lines).text
         IN  IF choice = "1"
             THEN LET r == get_player_stocks(md, Tail(lines))
                  IN  [ret |-> CustomStrategy(r.ret), stdin |-> r.stdin,
                       printed |-> printed \o r.printed, err |-> r.err,
                       choice |-> choice, bounds |-> <<>>]
             ELSE IF choice = "2"
             THEN LET r == choose_predefined_strategy(Tail(lines), <<>>)
                  IN  [ret |-> r.ret, stdin |-> r.stdin,
                       printed |-> printed \o r.printed, err |-> r.err,
                       choice |-> choice, bounds |-> <<>>]
             ELSE IF choice = "3"
             THEN LET r == create_custom_strategy(md, Tail(lines))
                  IN  [ret |-> r.ret, stdin |-> r.stdin,
                       printed |-> printed \o r.printed, err |-> r.err,
                       choice |-> choice, bounds |-> r.bounds]
             ELSE player_options_menu(md, Tail(lines),
                      Append(printed, "Invalid choice, please select 1, 2, or 3."))

---------------------------------------------------------------------------
(* The script, lines 250-271: Spec *)

GameData ==
    {[price |-> 1, change |-> -1, market_cap |-> 1, volatility |-> 1],
     [price |-> 2, change |-> 1, market_cap |-> 3, volatility |-> 1]}

NextYearData == {[price |-> 1], [price |-> 3]}

GameSizes == {0, 1, 2, MaxSyms}

GameLists ==
    {<<>>, <<SymbolNames[1]>>, <<"ZZZZ">>, <<SymbolNames[2], SymbolNames[1]>>,
     <<SymbolNames[1], SymbolNames[1]>>, <<SymbolNames[1], "ZZZZ">>,
     [i \in 1..(PickLimit + 1) |-> SymbolNames[i]]}

\* what the player types
GameInputs ==
    LET answers ==
            {<<ChoiceLine("1"), SymbolLine(l)>> : l \in GameLists}
            \cup {<<ChoiceLine("2"), ChoiceLine(c)>> : c \in {"1", "2", "3"}}
            \cup {<<ChoiceLine("2"), ChoiceLine("4"), ChoiceLine("1")>>}
            \cup {<<ChoiceLine("3"), Line(cap), Line(vol)>> :
                      cap \in CapBounds, vol \in VolBounds}
    IN  answers \cup {<<ChoiceLine("0")>> \o a : a \in answers}

Init ==
    /\ \E n \in GameSizes :
           /\ \E pat \in [1..2 -> GameData] : market_data = Snapshot(n, pat)
           /\ \E pat \in [1..2 -> NextYearData] : market_data_next_year = Snapshot(n, pat)
    /\ stdin \in GameInputs
    /\ output = <<>>
    /\ player_strategy = None
    /\ investors = <<>>
    /\ pc = "menu"
    /\ ret = [results |-> <<>>, best_performer |-> ""]
    /\ err = "none"
    /\ hist = [choice |-> "", bounds |-> <<>>]

\* line 251: player_strategy = player_options_menu(market_data)
PlayerOptionsMenu ==
    /\ pc = "menu"
    /\ \E r \in {player_options_menu(market_data, stdin, <<>>)} :
           /\ player_strategy' = r.ret
           /\ stdin' = r.stdin
           /\ output' = output \o r.printed
           /\ err' = r.err
           /\ pc' = IF r.err = "none" THEN "create" ELSE "crashed"
           /\ hist' = [choice |-> r.choice, bounds |-> r.bounds]
    /\ UNCHANGED <<market_data, market_data_next_year, investors, ret>>

\* lines 254-258: the three Investor objects, in the order compare_portfolios is
\* given them: investor1, investor2, player
CreateInvestors ==
    /\ pc = "create"
    /\ investors' = <<Investor("Alice", AggressiveStrategy, DefaultBalance),
                      Investor("Bob", ConservativeStrategy, DefaultBalance),
                      Investor("Player", player_strategy, DefaultBalance)>>
    /\ pc' = "invest1"
    /\ UNCHANGED <<market_data, market_data_next_year, stdin, output,
                   player_strategy, ret, err, hist>>

\* investors[i].invest(market_data), the script going on at the position next
InvestStep(i, here, next) ==
    /\ pc = here
    /\ \E r \in {invest(investors[i], market_data)} :
           /\ investors' = [investors EXCEPT ![i] = r.investor]
           /\ output' = output \o r.printed
           /\ err' = r.err
           /\ pc' = IF r.err = "none" THEN next ELSE "crashed"
    /\ UNCHANGED <<market_data, market_data_next_year, stdin, player_strategy,
                   ret, hist>>

\* line 261
InvestAlice == InvestStep(1, "invest1", "invest2")

\* line 262
InvestBob == InvestStep(2, "invest2", "invest3")

\* line 263
InvestPlayer == InvestStep(3, "invest3", "display")

\* lines 266-268: display_portfolio of the player, investor1 and investor2
DisplayPortfolios ==
    /\ pc = "display"
    /\ output' = output \o <<"Player's Portfolio:", "Alice's Portfolio:",
                               "Bob's Portfolio:">>
    /\ pc' = "compare"
    /\ UNCHANGED <<market_data, market_data_next_year, stdin, player_strategy,
                   investors, ret, err, hist>>

\* line 271
ComparePortfolios ==
    /\ pc = "compare"
    /\ \E r \in {compare_portfolios(investors, market_data, market_data_next_year)} :
           /\ ret' = [results |-> r.results, best_performer |-> r.best_performer]
           /\ output' = output \o r.printed
           /\ err' = r.err
           /\ pc' = IF r.err = "none" THEN "done" ELSE "crashed"
    /\ UNCHANGED <<market_data, market_data_next_year, stdin, player_strategy,
                   investors, hist>>

Next ==
    \/ PlayerOptionsMenu
    \/ CreateInvestors
    \/ InvestAlice
    \/ InvestBob
    \/ InvestPlayer
    \/ DisplayPortfolios
    \/ ComparePortfolios

Spec == Init /\ [][Next]_vars

\* the player chose the criteria and no symbol of the snapshot is within the bounds
NoSymbolQualifies ==
    /\ hist.choice = "3"
    /\ hist.bounds # <<>>
    /\ market_data # <<>>
    /\ QualifyLenient(market_data, hist.bounds) = {}

\* C3 as stated: when no symbol of the snapshot satisfies the bounds given to the
\* criteria-based strategy, the run never fails: the player's invest is a no-op
\* (no holdings, balance unchanged) and the run goes on to compare the
\* portfolios.
C3_AsStated ==
    NoSymbolQualifies =>
        /\ pc # "crashed"
        /\ err = "none"
        /\ pc \in {"display", "compare", "done"} =>
               /\ investors[3].portfolio = <<>>
               /\ investors[3].balance = DefaultBalance

====
